---- MODULE Spec2Model ----
(***************************************************************************)
(* Model of script.js: the stellar-parallax canvas (initParallaxSim) and   *)
(* the star-size sliders (initSizeSim).                                    *)
(*                                                                         *)
(* Numbers are fixed point.  Angles are tenths of a degree, -1800..1800    *)
(* (Math.atan2 truncated toward the x axis), cosines and the               *)
(* parallax angle are in millionths, distances in thousandths of a parsec, *)
(* canvas coordinates in 1/10000 pixel, luminosity in hundredths, radius   *)
(* in thousandths, pixel sizes in thousandths of a pixel.                  *)
(***************************************************************************)
EXTENDS Integers, Sequences, FiniteSets, TLC

VARIABLES
    earthAngle,     \* let earthAngle (tenths of a degree)
    isDragging,     \* let isDragging
    canvas,         \* what draw() last painted on parallaxCanvas
    angleDisplay,   \* #parallax-angle textContent
    distDisplay,    \* #est-distance textContent
    reading,        \* <<currentAngle, dist>> of the last updateData() call, <<>> before any
    lumSlider,      \* #lum-slider value (hundredths)
    tempSlider,     \* #temp-slider value (kelvin)
    lumVal,         \* #lum-val textContent
    tempVal,        \* #temp-val textContent
    radiusVal,      \* #calc-radius textContent
    starVisual,     \* #star-visual style: width, height, background, boxShadow
    lastEvent,      \* the event whose handler ran last: kind and pointer position
    calls,          \* the functions that handler called, in order
    buttonHistory   \* "none", or the kind of the latest mousedown / mouseup

parallaxVars == <<earthAngle, isDragging, canvas, angleDisplay, distDisplay, reading>>
starVars == <<lumSlider, tempSlider, lumVal, tempVal, radiusVal, starVisual>>
vars == <<earthAngle, isDragging, canvas, angleDisplay, distDisplay, reading,
          lumSlider, tempSlider, lumVal, tempVal, radiusVal, starVisual,
          lastEvent, calls, buttonHistory>>

----------------------------------------------------------------------------
(* Bounds of the model: the layout of the page and the pointer grid.       *)

CanvasWidth == 402
CanvasHeight == 300
RectLeft == 100
RectTop == 60
Step == 100
Cols == 6
Rows == 5

ClientXs == {i * Step : i \in 0..Cols}
ClientYs == {j * Step : j \in 0..Rows}

OnCanvas(clientX, clientY) ==
    /\ clientX >= RectLeft /\ clientX <= RectLeft + CanvasWidth
    /\ clientY >= RectTop /\ clientY <= RectTop + CanvasHeight

----------------------------------------------------------------------------
(* Arithmetic.                                                             *)

Abs(n) == IF n < 0 THEN -n ELSE n

\* Number.prototype.toFixed: n, in units of 1/(unit * 10^d), rounded to d decimals.
ToFixed(n, unit) == (n + unit \div 2) \div unit

\* cos(t / 10 degrees) in millionths, for t = 0..900.
CosTable ==
    << 1000000, 999998, 999994, 999986, 999976, 999962, 999945, 999925, 999903, 999877,
       999848, 999816, 999781, 999743, 999701, 999657, 999610, 999560, 999507, 999450,
       999391, 999328, 999263, 999194, 999123, 999048, 998971, 998890, 998806, 998719,
       998630, 998537, 998441, 998342, 998240, 998135, 998027, 997916, 997801, 997684,
       997564, 997441, 997314, 997185, 997053, 996917, 996779, 996637, 996493, 996345,
       996195, 996041, 995884, 995725, 995562, 995396, 995227, 995056, 994881, 994703,
       994522, 994338, 994151, 993961, 993768, 993572, 993373, 993171, 992966, 992757,
       992546, 992332, 992115, 991894, 991671, 991445, 991216, 990983, 990748, 990509,
       990268, 990024, 989776, 989526, 989272, 989016, 988756, 988494, 988228, 987960,
       987688, 987414, 987136, 986856, 986572, 986286, 985996, 985703, 985408, 985109,
       984808, 984503, 984196, 983885, 983571, 983255, 982935, 982613, 982287, 981959,
       981627, 981293, 980955, 980615, 980271, 979925, 979575, 979223, 978867, 978509,
       978148, 977783, 977416, 977046, 976672, 976296, 975917, 975535, 975149, 974761,
       974370, 973976, 973579, 973179, 972776, 972370, 971961, 971549, 971134, 970716,
       970296, 969872, 969445, 969016, 968583, 968148, 967709, 967268, 966823, 966376,
       965926, 965473, 965016, 964557, 964095, 963630, 963163, 962692, 962218, 961741,
       961262, 960779, 960294, 959805, 959314, 958820, 958323, 957822, 957319, 956814,
       956305, 955793, 955278, 954761, 954240, 953717, 953191, 952661, 952129, 951594,
       951057, 950516, 949972, 949425, 948876, 948324, 947768, 947210, 946649, 946085,
       945519, 944949, 944376, 943801, 943223, 942641, 942057, 941471, 940881, 940288,
       939693, 939094, 938493, 937889, 937282, 936672, 936060, 935444, 934826, 934204,
       933580, 932954, 932324, 931691, 931056, 930418, 929776, 929133, 928486, 927836,
       927184, 926529, 925871, 925210, 924546, 923880, 923210, 922538, 921863, 921185,
       920505, 919821, 919135, 918446, 917755, 917060, 916363, 915663, 914960, 914254,
       913545, 912834, 912120, 911403, 910684, 909961, 909236, 908508, 907777, 907044,
       906308, 905569, 904827, 904083, 903335, 902585, 901833, 901077, 900319, 899558,
       898794, 898028, 897258, 896486, 895712, 894934, 894154, 893371, 892586, 891798,
       891007, 890213, 889416, 888617, 887815, 887011, 886204, 885394, 884581, 883766,
       882948, 882127, 881303, 880477, 879649, 878817, 877983, 877146, 876307, 875465,
       874620, 873772, 872922, 872069, 871214, 870356, 869495, 868632, 867765, 866897,
       866025, 865151, 864275, 863396, 862514, 861629, 860742, 859852, 858960, 858065,
       857167, 856267, 855364, 854459, 853551, 852640, 851727, 850811, 849893, 848972,
       848048, 847122, 846193, 845262, 844328, 843391, 842452, 841511, 840567, 839620,
       838671, 837719, 836764, 835807, 834848, 833886, 832921, 831954, 830984, 830012,
       829038, 828060, 827081, 826098, 825113, 824126, 823136, 822144, 821149, 820152,
       819152, 818150, 817145, 816138, 815128, 814116, 813101, 812084, 811064, 810042,
       809017, 807990, 806960, 805928, 804894, 803857, 802817, 801776, 800731, 799685,
       798636, 797584, 796530, 795473, 794415, 793353, 792290, 791224, 790155, 789084,
       788011, 786935, 785857, 784776, 783693, 782608, 781520, 780430, 779338, 778243,
       777146, 776046, 774944, 773840, 772734, 771625, 770513, 769400, 768284, 767165,
       766044, 764921, 763796, 762668, 761538, 760406, 759271, 758134, 756995, 755853,
       754710, 753563, 752415, 751264, 750111, 748956, 747798, 746638, 745476, 744312,
       743145, 741976, 740805, 739631, 738455, 737277, 736097, 734915, 733730, 732543,
       731354, 730162, 728969, 727773, 726575, 725374, 724172, 722967, 721760, 720551,
       719340, 718126, 716911, 715693, 714473, 713250, 712026, 710799, 709571, 708340,
       707107, 705872, 704634, 703395, 702153, 700909, 699663, 698415, 697165, 695913,
       694658, 693402, 692143, 690882, 689620, 688355, 687088, 685818, 684547, 683274,
       681998, 680721, 679441, 678160, 676876, 675590, 674302, 673013, 671721, 670427,
       669131, 667833, 666532, 665230, 663926, 662620, 661312, 660002, 658689, 657375,
       656059, 654741, 653421, 652098, 650774, 649448, 648120, 646790, 645458, 644124,
       642788, 641450, 640110, 638768, 637424, 636078, 634731, 633381, 632029, 630676,
       629320, 627963, 626604, 625243, 623880, 622515, 621148, 619779, 618408, 617036,
       615661, 614285, 612907, 611527, 610145, 608761, 607376, 605988, 604599, 603208,
       601815, 600420, 599024, 597625, 596225, 594823, 593419, 592013, 590606, 589196,
       587785, 586372, 584958, 583541, 582123, 580703, 579281, 577858, 576432, 575005,
       573576, 572146, 570714, 569280, 567844, 566406, 564967, 563526, 562083, 560639,
       559193, 557745, 556296, 554844, 553392, 551937, 550481, 549023, 547563, 546102,
       544639, 543174, 541708, 540240, 538771, 537300, 535827, 534352, 532876, 531399,
       529919, 528438, 526956, 525472, 523986, 522499, 521010, 519519, 518027, 516533,
       515038, 513541, 512043, 510543, 509041, 507538, 506034, 504528, 503020, 501511,
       500000, 498488, 496974, 495459, 493942, 492424, 490904, 489382, 487860, 486335,
       484810, 483282, 481754, 480223, 478692, 477159, 475624, 474088, 472551, 471012,
       469472, 467930, 466387, 464842, 463296, 461749, 460200, 458650, 457098, 455545,
       453990, 452435, 450878, 449319, 447759, 446198, 444635, 443071, 441506, 439939,
       438371, 436802, 435231, 433659, 432086, 430511, 428935, 427358, 425779, 424199,
       422618, 421036, 419452, 417867, 416281, 414693, 413104, 411514, 409923, 408330,
       406737, 405142, 403545, 401948, 400349, 398749, 397148, 395546, 393942, 392337,
       390731, 389124, 387516, 385906, 384295, 382683, 381070, 379456, 377841, 376224,
       374607, 372988, 371368, 369747, 368125, 366501, 364877, 363251, 361625, 359997,
       358368, 356738, 355107, 353475, 351842, 350207, 348572, 346936, 345298, 343660,
       342020, 340380, 338738, 337095, 335452, 333807, 332161, 330514, 328867, 327218,
       325568, 323917, 322266, 320613, 318959, 317305, 315649, 313992, 312335, 310676,
       309017, 307357, 305695, 304033, 302370, 300706, 299041, 297375, 295708, 294040,
       292372, 290702, 289032, 287361, 285688, 284015, 282341, 280667, 278991, 277315,
       275637, 273959, 272280, 270600, 268920, 267238, 265556, 263873, 262189, 260505,
       258819, 257133, 255446, 253758, 252069, 250380, 248690, 246999, 245307, 243615,
       241922, 240228, 238533, 236838, 235142, 233445, 231748, 230050, 228351, 226651,
       224951, 223250, 221548, 219846, 218143, 216440, 214735, 213030, 211325, 209619,
       207912, 206204, 204496, 202787, 201078, 199368, 197657, 195946, 194234, 192522,
       190809, 189095, 187381, 185667, 183951, 182236, 180519, 178802, 177085, 175367,
       173648, 171929, 170209, 168489, 166769, 165048, 163326, 161604, 159881, 158158,
       156434, 154710, 152986, 151261, 149535, 147809, 146083, 144356, 142629, 140901,
       139173, 137445, 135716, 133986, 132256, 130526, 128796, 127065, 125333, 123601,
       121869, 120137, 118404, 116671, 114937, 113203, 111469, 109734, 107999, 106264,
       104528, 102793, 101056, 99320, 97583, 95846, 94108, 92371, 90633, 88894,
       87156, 85417, 83678, 81939, 80199, 78459, 76719, 74979, 73238, 71497,
       69756, 68015, 66274, 64532, 62791, 61049, 59306, 57564, 55822, 54079,
       52336, 50593, 48850, 47106, 45363, 43619, 41876, 40132, 38388, 36644,
       34899, 33155, 31411, 29666, 27922, 26177, 24432, 22687, 20942, 19197,
       17452, 15707, 13962, 12217, 10472, 8727, 6981, 5236, 3491, 1745,
       0 >>

\* Math.cos of an angle in tenths of a degree, in millionths.
Cos(t) ==
    LET m == Abs(t) % 3600
        a == IF m > 1800 THEN 3600 - m ELSE m
    IN  IF a <= 900 THEN CosTable[a + 1] ELSE -CosTable[1800 - a + 1]

\* Math.sin of an angle in tenths of a degree, in millionths.
Sin(t) == Cos(900 - t)

\* v / 10 rounded to the nearest integer.
Tenth(v) == IF v < 0 THEN -((5 - v) \div 10) ELSE (v + 5) \div 10

\* The direction (dx, dy), dy > 0, lies at or past angle t: sin(phi - t) >= 0.
AtOrPast(t, dy, dx) == Tenth(Cos(t)) * dy - Tenth(Sin(t)) * dx >= 0

RECURSIVE LastAtOrPast(_, _, _, _)
\* The greatest t in lo..hi with AtOrPast(t, dy, dx), given AtOrPast(lo, dy, dx).
LastAtOrPast(lo, hi, dy, dx) ==
    IF lo = hi THEN lo
    ELSE LET mid == (lo + hi + 1) \div 2
         IN  IF AtOrPast(mid, dy, dx)
             THEN LastAtOrPast(mid, hi, dy, dx)
             ELSE LastAtOrPast(lo, mid - 1, dy, dx)

\* Math.atan2(dy, dx) in tenths of a degree, -1800..1800.
Atan2(dy, dx) ==
    IF dy = 0 THEN (IF dx >= 0 THEN 0 ELSE 1800)
    ELSE IF dy > 0 THEN LastAtOrPast(0, 1800, dy, dx)
    ELSE -LastAtOrPast(0, 1800, -dy, dx)

----------------------------------------------------------------------------
(* initParallaxSim                                                         *)

orbitRadius == 100
\* const maxAngle = 0.76, in millionths of an arcsecond.
maxAngle == 760000

\* centerX = canvas.width / 2 and centerY = canvas.height * 0.8, in tenths of a pixel.
centerX == CanvasWidth * 5
centerY == CanvasHeight * 8

\* draw(): the scene painted from the angle, in 1/10000 pixel.
Scene(angle) ==
    LET cx == centerX * 1000
        cy == centerY * 1000
        ex == cx + (Cos(angle) * orbitRadius) \div 100
        ey == cy + (Sin(angle) * orbitRadius * 3) \div 1000
        starX == cx
        starY == cy - 150 * 10000
        vecX == starX - ex
        vecY == starY - ey
        projX == ex + (vecX * 5) \div 2
        projY == ey + (vecY * 5) \div 2
    IN  [ backgroundStars |-> 50,
          sun |-> <<cx, cy>>,
          orbit |-> <<orbitRadius * 10000, orbitRadius * 3000>>,
          earth |-> <<ex, ey>>,
          star |-> <<starX, starY>>,
          sight |-> <<ex, ey, starX, starY>>,
          projected |-> <<projX, projY>>,
          label |-> <<projX + 10 * 10000, projY>> ]

\* CurrentAngle without Math.abs.
CurrentAngleSigned(angle) ==
    LET earthX == Cos(angle) * orbitRadius
    IN  ((earthX \div orbitRadius) * (maxAngle \div 10000)) \div 100

\* const currentAngle = Math.abs((earthX / orbitRadius) * maxAngle), in millionths.
CurrentAngle(angle) ==
    LET earthX == Cos(angle) * orbitRadius
    IN  Abs(((earthX \div orbitRadius) * (maxAngle \div 10000)) \div 100)

\* Dist without the else branch: dist keeps its initial 0.
DistNoElse(currentAngle) ==
    IF currentAngle > 10000 THEN (10^9) \div currentAngle ELSE 0

\* let dist: 1 / currentAngle above the 0.01 guard, else 100; in thousandths.
Dist(currentAngle) ==
    IF currentAngle > 10000 THEN (10^9) \div currentAngle ELSE 100 * 1000

AngleText(currentAngle) == <<ToFixed(currentAngle, 1000), "\"">>
DistText(dist) == <<ToFixed(dist, 10), " pc">>

\* What the page's markup may hold in the two text outputs before the script writes them.
MarkupAngleTexts == { <<>>, <<760, "\"">> }
MarkupDistTexts == { <<>>, <<132, " pc">> }

\* updateData(): the reading and the two text outputs.
UpdateData(angle) ==
    LET currentAngle == CurrentAngle(angle)
        dist == Dist(currentAngle)
    IN  /\ reading' = <<currentAngle, dist>>
        /\ angleDisplay' = AngleText(currentAngle)
        /\ distDisplay' = DistText(dist)

\* UpdateEarthPos calling draw() before it assigns earthAngle.
UpdateEarthPosDrawsFirst(mouseX, mouseY) ==
    LET dx == 10 * mouseX - centerX
        dy == 10 * mouseY - centerY
    IN  /\ canvas' = Scene(earthAngle)
        /\ earthAngle' = Atan2(dy, dx)
        /\ UpdateData(earthAngle')
        /\ calls' = <<"updateEarthPos", "draw", "updateData">>

\* updateEarthPos(mouseX, mouseY), mouse coordinates in pixels.
UpdateEarthPos(mouseX, mouseY) ==
    LET dx == 10 * mouseX - centerX
        dy == 10 * mouseY - centerY
    IN  /\ earthAngle' = Atan2(dy, dx)
        /\ canvas' = Scene(earthAngle')
        /\ UpdateData(earthAngle')
        /\ calls' = <<"updateEarthPos", "draw", "updateData">>

\* canvas 'mousedown' listener.
MouseDown(clientX, clientY) ==
    /\ OnCanvas(clientX, clientY)
    /\ isDragging' = TRUE
    /\ UpdateEarthPos(clientX - RectLeft, clientY - RectTop)
    /\ lastEvent' = [kind |-> "mousedown", clientX |-> clientX, clientY |-> clientY]
    /\ buttonHistory' = "mousedown"
    /\ UNCHANGED starVars

\* MouseMove without the isDragging guard.
MouseMoveUnguarded(clientX, clientY) ==
    /\ UpdateEarthPos(clientX - RectLeft, clientY - RectTop)
    /\ UNCHANGED isDragging
    /\ lastEvent' = [kind |-> "mousemove", clientX |-> clientX, clientY |-> clientY]
    /\ UNCHANGED <<buttonHistory, starVars>>

\* window 'mousemove' listener.
MouseMove(clientX, clientY) ==
    /\ IF ~isDragging
       THEN /\ calls' = <<>>
            /\ UNCHANGED parallaxVars
       ELSE /\ UpdateEarthPos(clientX - RectLeft, clientY - RectTop)
            /\ UNCHANGED isDragging
    /\ lastEvent' = [kind |-> "mousemove", clientX |-> clientX, clientY |-> clientY]
    /\ UNCHANGED <<buttonHistory, starVars>>

\* MouseUp that leaves isDragging as it is.
MouseUpKeepsDragging(clientX, clientY) ==
    /\ calls' = <<>>
    /\ lastEvent' = [kind |-> "mouseup", clientX |-> clientX, clientY |-> clientY]
    /\ buttonHistory' = "mouseup"
    /\ UNCHANGED <<parallaxVars, starVars>>

\* MouseUp that also puts the planet back at angle 0 and redraws.
MouseUpSnapsBack(clientX, clientY) ==
    /\ isDragging' = FALSE
    /\ earthAngle' = 0
    /\ canvas' = Scene(0)
    /\ calls' = <<"draw">>
    /\ lastEvent' = [kind |-> "mouseup", clientX |-> clientX, clientY |-> clientY]
    /\ buttonHistory' = "mouseup"
    /\ UNCHANGED <<angleDisplay, distDisplay, reading, starVars>>

\* window 'mouseup' listener.
MouseUp(clientX, clientY) ==
    /\ isDragging' = FALSE
    /\ calls' = <<>>
    /\ lastEvent' = [kind |-> "mouseup", clientX |-> clientX, clientY |-> clientY]
    /\ buttonHistory' = "mouseup"
    /\ UNCHANGED <<earthAngle, canvas, angleDisplay, distDisplay, reading, starVars>>

\* initParallaxSim(): the state it leaves, after its initial draw().
InitParallaxSim ==
    /\ earthAngle = 0
    /\ isDragging = FALSE
    /\ canvas = Scene(0)
    /\ angleDisplay \in MarkupAngleTexts
    /\ distDisplay \in MarkupDistTexts
    /\ reading = <<>>

----------------------------------------------------------------------------
(* initSizeSim                                                             *)

\* The values the two range inputs can take: luminosity in hundredths, kelvin.
LumValues == {0, 1, 25, 100, 400, 2500, 10000}
TempValues == {2000, 3999, 4000, 5800, 5999, 6000, 7999, 8000, 12000}

RECURSIVE SqrtBetween(_, _, _)
\* The greatest r in lo..hi with r * r <= n, given lo * lo <= n.
SqrtBetween(lo, hi, n) ==
    IF lo = hi THEN lo
    ELSE LET mid == (lo + hi + 1) \div 2
         IN  IF mid * mid <= n
             THEN SqrtBetween(mid, hi, n)
             ELSE SqrtBetween(lo, mid - 1, n)

\* Math.sqrt(L) in thousandths, L in hundredths.
Sqrt(L) == SqrtBetween(0, 10000, L * 10000)

T_sun == 5800

\* const R_rel = Math.sqrt(L) / (T_rel * T_rel), in thousandths.
R_rel(L, T) == (((Sqrt(L) * T_sun) \div T) * T_sun) \div T

\* PxSize without the lower clamp.
PxSizeNoFloor(L, T) ==
    LET raw == 100 * R_rel(L, T)
    IN  IF raw > 300 * 1000 THEN 300 * 1000 ELSE raw

\* let pxSize = 100 * R_rel, clamped to 5..300, in thousandths of a pixel.
PxSize(L, T) ==
    LET raw == 100 * R_rel(L, T)
        low == IF raw < 5 * 1000 THEN 5 * 1000 ELSE raw
    IN  IF low > 300 * 1000 THEN 300 * 1000 ELSE low

\* Colors with <= in place of <.
ColorsInclusive(T) ==
    IF T <= 4000 THEN <<"#ff8844", "#cc2200", "#ff2200">>
    ELSE IF T <= 6000 THEN <<"#ffdd44", "#cc9900", "#ffaa00">>
    ELSE IF T <= 8000 THEN <<"#ffffff", "#cccccc", "#ccccff">>
    ELSE <<"#aaddff", "#4488ff", "#0088ff">>

\* The if / else-if chain on T: <<colorStart, colorEnd, glow>>.
Colors(T) ==
    IF T < 4000 THEN <<"#ff8844", "#cc2200", "#ff2200">>
    ELSE IF T < 6000 THEN <<"#ffdd44", "#cc9900", "#ffaa00">>
    ELSE IF T < 8000 THEN <<"#ffffff", "#cccccc", "#ccccff">>
    ELSE <<"#aaddff", "#4488ff", "#0088ff">>

\* The style updateStar() gives #star-visual.
StarStyle(L, T) ==
    LET pxSize == PxSize(L, T)
        c == Colors(T)
    IN  [ width |-> <<pxSize, "px">>,
          height |-> <<pxSize, "px">>,
          background |-> <<"radial-gradient", "circle at 30% 30%", c[1], c[2]>>,
          boxShadow |-> <<0, 0, pxSize \div 2, "px", c[3]>> ]

\* updateStar(), reading both sliders.
UpdateStar(L, T) ==
    /\ lumVal' = <<L, "x Sun">>
    /\ tempVal' = <<T, " K">>
    /\ radiusVal' = <<ToFixed(R_rel(L, T), 10), " x Sun">>
    /\ starVisual' = StarStyle(L, T)
    /\ calls' = <<"updateStar">>

\* LumInput that rewrites the luminosity label alone.
LumInputLabelOnly(v) ==
    /\ v # lumSlider
    /\ lumSlider' = v
    /\ lumVal' = <<v, "x Sun">>
    /\ calls' = <<"updateStar">>
    /\ lastEvent' = [kind |-> "lum-input", clientX |-> 0, clientY |-> 0]
    /\ UNCHANGED <<tempSlider, tempVal, radiusVal, starVisual, buttonHistory, parallaxVars>>

\* lumSlider 'input' listener: the user has moved the slider to v.
LumInput(v) ==
    /\ v # lumSlider
    /\ lumSlider' = v
    /\ UNCHANGED tempSlider
    /\ UpdateStar(lumSlider', tempSlider')
    /\ lastEvent' = [kind |-> "lum-input", clientX |-> 0, clientY |-> 0]
    /\ UNCHANGED <<buttonHistory, parallaxVars>>

\* tempSlider 'input' listener: the user has moved the slider to v.
TempInput(v) ==
    /\ v # tempSlider
    /\ tempSlider' = v
    /\ UNCHANGED lumSlider
    /\ UpdateStar(lumSlider', tempSlider')
    /\ lastEvent' = [kind |-> "temp-input", clientX |-> 0, clientY |-> 0]
    /\ UNCHANGED <<buttonHistory, parallaxVars>>

\* initSizeSim(): the state it leaves, after its initial updateStar().
InitSizeSim ==
    /\ lumSlider \in LumValues
    /\ tempSlider \in TempValues
    /\ lumVal = <<lumSlider, "x Sun">>
    /\ tempVal = <<tempSlider, " K">>
    /\ radiusVal = <<ToFixed(R_rel(lumSlider, tempSlider), 10), " x Sun">>
    /\ starVisual = StarStyle(lumSlider, tempSlider)

----------------------------------------------------------------------------
(* The page: the DOMContentLoaded listener, then one event at a time.      *)

Init ==
    /\ InitParallaxSim
    /\ InitSizeSim
    /\ lastEvent = [kind |-> "DOMContentLoaded", clientX |-> 0, clientY |-> 0]
    /\ calls = <<"initParallaxSim", "draw", "initSizeSim", "updateStar">>
    /\ buttonHistory = "none"

NextParallax ==
    \E clientX \in ClientXs, clientY \in ClientYs :
        \/ MouseDown(clientX, clientY)
        \/ MouseMove(clientX, clientY)
        \/ MouseUp(clientX, clientY)

NextStar ==
    \/ \E v \in LumValues : LumInput(v)
    \/ \E v \in TempValues : TempInput(v)

Next == NextParallax \/ NextStar

Spec == Init /\ [][Next]_vars

\* The parallax canvas alone, the sliders left where the page put them.
ParallaxInit == Init /\ lumSlider = 100 /\ tempSlider = T_sun
ParallaxSpec == ParallaxInit /\ [][NextParallax]_vars

\* The sliders alone, the pointer left alone.
StarInit == Init /\ angleDisplay = <<>> /\ distDisplay = <<>>
StarSpec == StarInit /\ [][NextStar]_vars

----------------------------------------------------------------------------
(* Properties.                                                             *)

\* The pointer position of the last event, relative to the sun, in tenths of a pixel.
LastDx == 10 * (lastEvent.clientX - RectLeft) - centerX
LastDy == 10 * (lastEvent.clientY - RectTop) - centerY

\* The last event recomputed the angle: a mousedown, or a mousemove while dragging.
LastEventTriggered ==
    \/ lastEvent.kind = "mousedown"
    \/ lastEvent.kind = "mousemove" /\ isDragging

\* C1: isDragging is true exactly when a mousedown has occurred and no mouseup
\* has occurred since the latest one; a mousemove never changes isDragging.
C1_DragStateMachine ==
    /\ [](isDragging <=> buttonHistory = "mousedown")
    /\ [][lastEvent'.kind = "mousemove" => isDragging' = isDragging]_vars

\* A mouseup has ended a drag that a mousedown began.
C1_Witness ==
    /\ lastEvent.kind = "mouseup"
    /\ ~isDragging
    /\ reading # <<>>

\* C2: a mousemove received while not dragging changes neither earthAngle nor
\* isDragging, redraws nothing and rewrites neither text output.
C2_IdleMoveIgnored ==
    [][(lastEvent'.kind = "mousemove" /\ ~isDragging)
         => /\ UNCHANGED <<earthAngle, isDragging, canvas, angleDisplay, distDisplay>>
            /\ calls' = <<>>]_vars

\* A mousemove arrived while idle, away from where the planet was last put.
C2_Witness ==
    /\ lastEvent.kind = "mousemove"
    /\ ~isDragging
    /\ calls = <<>>
    /\ reading # <<>>
    /\ earthAngle # Atan2(LastDy, LastDx)

\* C3: right after a mousedown, or a mousemove while dragging, earthAngle is the
\* atan2 of that event's pointer position, and the canvas and both text outputs
\* are the ones derived from that angle, written by the same handler.
C3_TriggeredEventRendersAll ==
    LastEventTriggered =>
        /\ earthAngle = Atan2(LastDy, LastDx)
        /\ canvas = Scene(earthAngle)
        /\ angleDisplay = AngleText(CurrentAngle(earthAngle))
        /\ distDisplay = DistText(Dist(CurrentAngle(earthAngle)))
        /\ calls = <<"updateEarthPos", "draw", "updateData">>

\* A drag has moved the planet from one angle to another.
C3_Witness ==
    /\ lastEvent.kind = "mousemove"
    /\ isDragging
    /\ Abs(earthAngle) \in 893..907
    /\ distDisplay = <<10000, " pc">>

\* C4: whenever updateData() has run, the distance is 100 if the parallax angle
\* is at most 0.01 and 1 / angle otherwise, and is positive and at most 100.
C4_DistanceGuarded ==
    reading # <<>> =>
        LET currentAngle == reading[1]
            dist == reading[2]
        IN  /\ currentAngle <= 10000 => dist = 100 * 1000
            /\ currentAngle > 10000 => dist = (10^9) \div currentAngle
            /\ dist > 0
            /\ dist <= 100 * 1000

\* updateData() has run on an angle whose parallax is below the guard.
C4_Witness ==
    /\ reading # <<>>
    /\ reading[1] > 0
    /\ reading[1] <= 10000
    /\ reading[2] = 100 * 1000

\* C5: earthAngle stays within [-pi, pi] (-1800..1800 tenths of a degree) and the parallax angle that
\* updateData() computes is abs(cos(earthAngle) * maxAngle), within [0, maxAngle].
C5_ParallaxAngleRange ==
    /\ earthAngle \in -1800..1800
    /\ reading # <<>> =>
        /\ reading[1] = Abs((Cos(earthAngle) * (maxAngle \div 10000)) \div 100)
        /\ reading[1] >= 0
        /\ reading[1] <= maxAngle

\* updateData() has run with the planet left of the sun, where the cosine is negative.
C5_Witness ==
    /\ reading # <<>>
    /\ earthAngle > 900
    /\ reading[1] > 0

\* C6: the gradient and the glow come from the one band the temperature lies
\* in, each of 4000, 6000 and 8000 lying in the higher band.
C6_ColorBands ==
    LET T == tempSlider
        shown == <<starVisual.background[3], starVisual.background[4],
                   starVisual.boxShadow[5]>>
    IN  /\ T < 4000 => shown = <<"#ff8844", "#cc2200", "#ff2200">>
        /\ (4000 <= T /\ T < 6000) => shown = <<"#ffdd44", "#cc9900", "#ffaa00">>
        /\ (6000 <= T /\ T < 8000) => shown = <<"#ffffff", "#cccccc", "#ccccff">>
        /\ T >= 8000 => shown = <<"#aaddff", "#4488ff", "#0088ff">>

\* The temperature slider has been moved onto a band boundary.
C6_Witness ==
    /\ lastEvent.kind = "temp-input"
    /\ tempSlider = 6000
    /\ starVisual.boxShadow[5] = "#ccccff"

\* C7: the width and the height of the star are equal, and are 100 * R_rel
\* clamped into [5, 300] pixels.
C7_PxSizeClamped ==
    LET raw == 100 * ((((Sqrt(lumSlider) * T_sun) \div tempSlider) * T_sun) \div tempSlider)
        size == starVisual.width[1]
    IN  /\ starVisual.width = starVisual.height
        /\ size >= 5 * 1000
        /\ size <= 300 * 1000
        /\ (raw >= 5 * 1000 /\ raw <= 300 * 1000) => size = raw
        /\ raw < 5 * 1000 => size = 5 * 1000
        /\ raw > 300 * 1000 => size = 300 * 1000

\* The luminosity slider has been moved to 0, where the raw size is 0.
C7_Witness ==
    /\ lastEvent.kind = "lum-input"
    /\ lumSlider = 0
    /\ starVisual.width = <<5 * 1000, "px">>

\* C8: the three labels and the style of the star are all derived from the
\* current values of both sliders.
C8_OutputsFromCurrentSliders ==
    /\ lumVal = <<lumSlider, "x Sun">>
    /\ tempVal = <<tempSlider, " K">>
    /\ radiusVal = <<ToFixed(R_rel(lumSlider, tempSlider), 10), " x Sun">>
    /\ starVisual = StarStyle(lumSlider, tempSlider)

\* Only the luminosity slider has just moved, the temperature being in the top band.
C8_Witness ==
    /\ lastEvent.kind = "lum-input"
    /\ lumSlider = 400
    /\ tempSlider = 8000
    /\ radiusVal = <<105, " x Sun">>

\* C9: a mouseup leaves earthAngle, the canvas and both text outputs as they
\* were and calls neither draw() nor updateData(); earthAngle changes only in a
\* mousedown or in a mousemove received while dragging.
C9_MouseUpOnlyEndsDrag ==
    /\ [][lastEvent'.kind = "mouseup"
            => /\ UNCHANGED <<earthAngle, canvas, angleDisplay, distDisplay, reading>>
               /\ calls' = <<>>]_vars
    /\ [][earthAngle' # earthAngle
            => \/ lastEvent'.kind = "mousedown"
               \/ lastEvent'.kind = "mousemove" /\ isDragging]_vars

\* A mouseup has ended a drag that left the planet away from angle 0.
C9_Witness ==
    /\ lastEvent.kind = "mouseup"
    /\ ~isDragging
    /\ earthAngle = 1800
    /\ canvas = Scene(1800)

\* C10: in every state the canvas is the scene of the current angle and both
\* text outputs show the reading of the current angle.
C10_NoStaleState ==
    /\ canvas = Scene(earthAngle)
    /\ angleDisplay = AngleText(CurrentAngle(earthAngle))
    /\ distDisplay = DistText(Dist(CurrentAngle(earthAngle)))

====
